---- MODULE Spec2Model ----
(***************************************************************************)
(* Model of the paper-rag experiment utilities:                            *)
(*   - evaluate_answers.py : compute_token_f1 and the max-over-references  *)
(*     loop of evaluate_first_experiment                                   *)
(*   - inspect_tree.py     : analyze_tree_structure, show_sample_nodes,    *)
(*     extract_tree_to_json, visualize_tree_graph                          *)
(*   - qasper_utils.py     : QasperDataProcessor.extract_answer_text,      *)
(*     prepare_for_raptor, get_paper_info                                  *)
(* A Python str is a sequence of one-character strings.  A Python float    *)
(* that the scorer produces is the exact rational <<num, den>> in lowest   *)
(* terms (for token sets of at most four tokens the float the code         *)
(* computes is a function of that rational, so equality and order agree).  *)
(* A raised exception is a value the operation ends with.                  *)
(***************************************************************************)
EXTENDS Integers, Sequences, FiniteSets, TLC

VARIABLES
    prediction,   \* result['raptor_answer']
    references,   \* result['references']
    idx,          \* number of references the for loop has consumed
    f1,           \* the loop's f1
    max_f1,       \* the loop's max_f1
    best_ref,     \* the loop's best_ref
    pc,           \* "loop" | "done" | "ZeroDivisionError" | "idle"
    tree,         \* the Tree handed to the analyzer
    report,       \* what analyze_tree_structure printed
    samples,      \* what show_sample_nodes printed
    doc,          \* the tree_dict extract_tree_to_json dumped
    ascii,        \* what visualize_tree_graph wrote
    papers,       \* QasperDataProcessor.papers
    qresult       \* how the last call on the processor ended

scorerVars == <<prediction, references, idx, f1, max_f1, best_ref, pc>>

outVars == <<report, samples, doc, ascii>>

treeVars == <<tree, report, samples, doc, ascii>>

qasperVars == <<papers, qresult>>

vars == <<prediction, references, idx, f1, max_f1, best_ref, pc,
          tree, report, samples, doc, ascii, papers, qresult>>

(*************************** bounds of the inputs **************************)
MaxLen == 3
MaxRefs == 2
MaxNodes == 4
MaxSamples == 2
MaxPapers == 2
MaxAnswers == 2

\* node.text[:200] in show_sample_nodes, node.text[:100] in visualize_tree_graph
SampleChars == 200

PreviewChars == 100

Chars == {"a", "B", ",", " "}

StringsOfLen(n) == [1..n -> Chars]

Strings == UNION {StringsOfLen(n) : n \in 0..MaxLen}

\* the answers and references the loop over several references is run on:
\* "", ",", "a", "A", "b", "ab", "a a", "a b", "B, a", "a ab", "a b ab"
LoopStrings ==
    {<<>>, <<",">>, <<"a">>, <<"A">>, <<"b">>, <<"a", "b">>,
     <<"a", " ", "a">>, <<"a", " ", "b">>, <<"B", ",", " ", "a">>,
     <<"a", " ", "a", "b">>, <<"a", " ", "b", " ", "a", "b">>}

RefLists == UNION {[1..n -> LoopStrings] : n \in 0..MaxRefs}

\* no reference, or one
ShortRefLists == UNION {[1..n -> Strings] : n \in 0..1}

(****************************** rationals **********************************)
RECURSIVE GCD(_, _)
GCD(a, b) == IF b = 0 THEN a ELSE GCD(b, a % b)

Frac(n, d) == LET g == GCD(n, d) IN <<n \div g, d \div g>>

Zero == <<0, 1>>

One == <<1, 1>>

FMul(x, y) == Frac(x[1] * y[1], x[2] * y[2])

FAdd(x, y) == Frac(x[1] * y[2] + y[1] * x[2], x[2] * y[2])

FGt(x, y) == x[1] * y[2] > y[1] * x[2]

\* x / y of two non-negative floats; y = 0.0 raises ZeroDivisionError
FDiv(x, y) ==
    IF y[1] = 0 THEN [err |-> "ZeroDivisionError", val |-> Zero]
    ELSE [err |-> "", val |-> Frac(x[1] * y[2], x[2] * y[1])]

Ok(v) == [err |-> "", val |-> v]

(************************* compute_token_f1 ********************************)
WordChars == {"a", "b", "A", "B"}

Whitespace == {" "}

\* str.lower on one character
LowerChar(c) == CASE c = "A" -> "a" [] c = "B" -> "b" [] OTHER -> c

\* text.lower()
Lower(text) == [i \in 1..Len(text) |-> LowerChar(text[i])]

\* text with its leading run of non-word characters removed
RECURSIVE SkipNonWord(_)
SkipNonWord(text) ==
    IF text = <<>> \/ Head(text) \in WordChars THEN text
    ELSE SkipNonWord(Tail(text))

\* re.sub(r'\W+', ' ', text)
RECURSIVE SubNonWord(_)
SubNonWord(text) ==
    IF text = <<>> THEN <<>>
    ELSE IF Head(text) \in WordChars THEN <<Head(text)>> \o SubNonWord(Tail(text))
    ELSE <<" ">> \o SubNonWord(SkipNonWord(text))

\* text.split(): the maximal runs of non-whitespace characters, in order
RECURSIVE SplitFrom(_, _)
SplitFrom(text, cur) ==
    IF text = <<>> THEN (IF cur = <<>> THEN <<>> ELSE <<cur>>)
    ELSE IF Head(text) \in Whitespace
         THEN (IF cur = <<>> THEN <<>> ELSE <<cur>>) \o SplitFrom(Tail(text), <<>>)
         ELSE SplitFrom(Tail(text), Append(cur, Head(text)))

Split(text) == SplitFrom(text, <<>>)

normalize(text) == Split(SubNonWord(Lower(text)))

\* set(normalize(text))
TokenSet(text) == LET toks == normalize(text) IN {toks[i] : i \in 1..Len(toks)}

\* the body of compute_token_f1 after the two guards: precision, recall, f1
HarmonicMean(common, pred_tokens, ref_tokens) ==
    LET precision == FDiv(<<Cardinality(common), 1>>, <<Cardinality(pred_tokens), 1>>)
        recall == FDiv(<<Cardinality(common), 1>>, <<Cardinality(ref_tokens), 1>>)
    IN  IF precision.err # "" THEN precision
        ELSE IF recall.err # "" THEN recall
        ELSE FDiv(FMul(<<2, 1>>, FMul(precision.val, recall.val)),
                  FAdd(precision.val, recall.val))

\* a plausible slip: neither guard is there, the ratios are taken at once
ComputeTokenF1_NoGuards(pred, ref) ==
    LET pred_tokens == TokenSet(pred)
        ref_tokens == TokenSet(ref)
    IN  HarmonicMean(pred_tokens \cap ref_tokens, pred_tokens, ref_tokens)

\* a plausible slip: the score is the precision alone
ComputeTokenF1_Precision(pred, ref) ==
    LET pred_tokens == TokenSet(pred)
        ref_tokens == TokenSet(ref)
        common == pred_tokens \cap ref_tokens
    IN  IF pred_tokens = {} \/ ref_tokens = {} THEN Ok(Zero)
        ELSE IF common = {} THEN Ok(Zero)
        ELSE FDiv(<<Cardinality(common), 1>>, <<Cardinality(pred_tokens), 1>>)

\* a plausible slip: tokens are kept as a list, so duplicates count
ComputeTokenF1_ListLen(pred, ref) ==
    LET pred_tokens == TokenSet(pred)
        ref_tokens == TokenSet(ref)
        common == pred_tokens \cap ref_tokens
    IN  IF pred_tokens = {} \/ ref_tokens = {} THEN Ok(Zero)
        ELSE IF common = {} THEN Ok(Zero)
        ELSE LET precision == Frac(Cardinality(common), Len(normalize(pred)))
                 recall == Frac(Cardinality(common), Len(normalize(ref)))
             IN  FDiv(FMul(<<2, 1>>, FMul(precision, recall)), FAdd(precision, recall))

ComputeTokenF1(pred, ref) ==
    LET pred_tokens == TokenSet(pred)
        ref_tokens == TokenSet(ref)
        common == pred_tokens \cap ref_tokens
    IN  IF pred_tokens = {} \/ ref_tokens = {} THEN Ok(Zero)
        ELSE IF common = {} THEN Ok(Zero)
        ELSE HarmonicMean(common, pred_tokens, ref_tokens)

(******************************* the Tree **********************************)
\* a text one character longer than the preview of visualize_tree_graph
LongText == [i \in 1..(PreviewChars + 1) |-> IF i % 2 = 1 THEN "x" ELSE "y"]

\* node texts the trees are built from: source chunks for the leaves,
\* generated summaries for the layers above
Texts == {<<>>, <<"x", "y">>}

SummaryTexts == {<<"x", "y">>, LongText}

Node(i, t, c) == [index |-> i, text |-> t, children |-> c]

\* the layers a builder can put on top of `below` (the indices of the layer
\* under it; {} for the leaves): m nodes indexed first..first+m-1
LayerChoices(first, m, below) ==
    LET kids == IF below = {} THEN {{}} ELSE (SUBSET below) \ {{}}
        texts == IF below = {} THEN Texts ELSE SummaryTexts
    IN  {[j \in 1..m |-> Node(first + j - 1, tx[j], ch[j])] :
            tx \in [1..m -> texts], ch \in [1..m -> kids]}

IndexSet(nodes) == {nodes[j].index : j \in 1..Len(nodes)}

\* every stack of layers that extends `layers` within MaxNodes nodes
RECURSIVE Grow(_, _)
Grow(layers, used) ==
    {layers} \cup
    UNION {UNION {Grow(Append(layers, ln), used + m) :
                    ln \in LayerChoices(used, m, IndexSet(layers[Len(layers)]))} :
             m \in 1..(MaxNodes - used)}

LayerStacks ==
    UNION {UNION {Grow(<<ln>>, m) : ln \in LayerChoices(0, m, {})} : m \in 1..MaxNodes}
    \cup {<< <<>> >>}

Reverse(s) == [j \in 1..Len(s) |-> s[Len(s) + 1 - j]]

RECURSIVE Concat(_)
Concat(ss) == IF ss = <<>> THEN <<>> ELSE Head(ss) \o Concat(Tail(ss))

\* a Python dict of nodes keyed by node.index is the sequence of its values
\* in insertion order; layer_to_nodes is the function layer index -> list
MakeTree(stack) ==
    [layer_to_nodes |-> [l \in 0..(Len(stack) - 1) |-> stack[l + 1]],
     all_nodes |-> Concat(stack),
     leaf_nodes |-> stack[1],
     root_nodes |-> stack[Len(stack)],
     num_layers |-> Len(stack) - 1]

\* the tree with no layers at all
EmptyTree ==
    [layer_to_nodes |-> <<>>, all_nodes |-> <<>>, leaf_nodes |-> <<>>,
     root_nodes |-> <<>>, num_layers |-> 0]

\* the trees of the data model: lists in index order, or each in reverse
Trees ==
    {MakeTree(st) : st \in LayerStacks}
    \cup {MakeTree([l \in 1..Len(st) |-> Reverse(st[l])]) : st \in LayerStacks}
    \cup {EmptyTree}

NoOutput == [status |-> "none"]

(**************************** list helpers *********************************)
Min2(a, b) == IF a < b THEN a ELSE b

\* a plausible slip: s[-n:], the last n
Take_FromEnd(s, n) == SubSeq(s, Len(s) - Min2(n, Len(s)) + 1, Len(s))

\* s[:n] for n >= 0
Take(s, n) == SubSeq(s, 1, Min2(n, Len(s)))

RECURSIVE SumSeq(_)
SumSeq(s) == IF s = <<>> THEN 0 ELSE Head(s) + SumSeq(Tail(s))

SetMin(S) == CHOOSE x \in S : \A y \in S : x <= y

SetMax(S) == CHOOSE x \in S : \A y \in S : x >= y

\* sorted(list(S)), descending: a plausible slip
RECURSIVE Sorted_Descending(_)
Sorted_Descending(S) ==
    IF S = {} THEN <<>> ELSE <<SetMax(S)>> \o Sorted_Descending(S \ {SetMax(S)})

\* sorted(list(S))
RECURSIVE Sorted(_)
Sorted(S) == IF S = {} THEN <<>> ELSE <<SetMin(S)>> \o Sorted(S \ {SetMin(S)})

Elems(s) == {s[j] : j \in 1..Len(s)}

(************************ analyze_tree_structure ***************************)
\* one line block of section 2: len(nodes), total_chars, avg_chars
LayerStats(nodes) ==
    LET total_chars == SumSeq([j \in 1..Len(nodes) |-> Len(nodes[j].text)])
        avg == IF nodes # <<>> THEN FDiv(<<total_chars, 1>>, <<Len(nodes), 1>>)
               ELSE Ok(Zero)
    IN  [count |-> Len(nodes), total_chars |-> total_chars,
         avg_chars |-> avg.val, err |-> avg.err]

\* one block of section 3, printed as "Layer layer_idx -> Layer layer_idx + 1"
ShapeStats(layer_idx, current_layer) ==
    LET children_counts ==
            [j \in 1..Len(current_layer) |-> Cardinality(current_layer[j].children)]
        avg == FDiv(<<SumSeq(children_counts), 1>>, <<Len(children_counts), 1>>)
    IN  [from |-> layer_idx, to |-> layer_idx + 1,
         avg_children |-> avg.val,
         min_children |-> SetMin(Elems(children_counts)),
         max_children |-> SetMax(Elems(children_counts)),
         err |-> avg.err]

\* range(tree.num_layers)
ShapeLayers(t) == 0..(t.num_layers - 1)

\* len(tree.leaf_nodes) where len(tree.all_nodes) is meant: a plausible slip
TotalNodes_Leaves(t) == Len(t.leaf_nodes)

\* len(tree.all_nodes)
TotalNodes(t) == Len(t.all_nodes)

AnalyzeTreeStructure(t) ==
    LET ltn == t.layer_to_nodes
        layers == [l \in DOMAIN ltn |-> LayerStats(ltn[l])]
        printed == {l \in ShapeLayers(t) : l \in DOMAIN ltn /\ ltn[l] # <<>>}
        shape == [l \in printed |-> ShapeStats(l, ltn[l])]
        errs == {layers[l].err : l \in DOMAIN layers} \cup {shape[l].err : l \in printed}
    IN  [status |-> IF errs \subseteq {""} THEN "ok" ELSE CHOOSE e \in errs : e # "",
         total_nodes |-> TotalNodes(t),
         num_layers |-> t.num_layers + 1,
         leaf_nodes |-> Len(t.leaf_nodes),
         root_nodes |-> Len(t.root_nodes),
         layers |-> layers,
         shape |-> shape]

(*************************** show_sample_nodes *****************************)
LeafSample(node) ==
    [index |-> node.index, text_length |-> Len(node.text),
     num_children |-> Cardinality(node.children),
     preview |-> Take(node.text, SampleChars)]

ParentSample(node) ==
    [index |-> node.index, text_length |-> Len(node.text),
     num_children |-> Cardinality(node.children),
     children |-> Sorted(node.children), text |-> node.text]

ShowSampleNodes(t, num_samples) ==
    LET leaf_nodes == t.leaf_nodes
        picked == Take(leaf_nodes, num_samples)
        leaves == [j \in 1..Len(picked) |-> LeafSample(picked[j])]
    IN  IF t.num_layers > 0
        THEN IF 1 \in DOMAIN t.layer_to_nodes
             THEN LET top == Take(t.layer_to_nodes[1], num_samples)
                  IN  [status |-> "ok", num_samples |-> num_samples,
                       leaves |-> leaves, has_layer1 |-> TRUE,
                       layer1 |-> [j \in 1..Len(top) |-> ParentSample(top[j])]]
             ELSE [status |-> "KeyError", num_samples |-> num_samples,
                   leaves |-> leaves, has_layer1 |-> FALSE, layer1 |-> <<>>]
        ELSE [status |-> "ok", num_samples |-> num_samples,
              leaves |-> leaves, has_layer1 |-> FALSE, layer1 |-> <<>>]

(************************** extract_tree_to_json ***************************)
\* f'layer_{layer_idx}'
LayerKey(layer_idx) == "layer_" \o ToString(layer_idx)

\* node_data with the children list left as the set iterates, here descending
NodeData_Unsorted(node) ==
    [index |-> node.index, text |-> node.text, text_length |-> Len(node.text),
     num_children |-> Cardinality(node.children),
     children |-> Sorted_Descending(node.children)]

\* node_data with the text cut to a preview: a plausible slip
NodeData_Preview(node) ==
    [index |-> node.index, text |-> Take(node.text, 1), text_length |-> Len(node.text),
     num_children |-> Cardinality(node.children),
     children |-> Sorted(node.children)]

NodeData(node) ==
    [index |-> node.index, text |-> node.text, text_length |-> Len(node.text),
     num_children |-> Cardinality(node.children),
     children |-> Sorted(node.children)]

ExtractTreeToJson(t) ==
    LET ltn == t.layer_to_nodes
        keys == {LayerKey(l) : l \in DOMAIN ltn}
        layerOf(k) == CHOOSE l \in DOMAIN ltn : LayerKey(l) = k
    IN  [status |-> "ok",
         meta |-> [total_nodes |-> TotalNodes(t),
                   num_layers |-> t.num_layers + 1,
                   leaf_nodes |-> Len(t.leaf_nodes),
                   root_nodes |-> Len(t.root_nodes)],
         layers |-> [k \in keys |->
                        [j \in 1..Len(ltn[layerOf(k)]) |-> NodeData(ltn[layerOf(k)][j])]]]

(************************** visualize_tree_graph ***************************)
NodeLines(node) ==
    [index |-> node.index, preview |-> Take(node.text, PreviewChars),
     length |-> Len(node.text),
     has_children_line |-> node.children # {},
     children |-> IF node.children # {} THEN Sorted(node.children) ELSE <<>>]

\* the blocks written for layers layer_idx, layer_idx - 1, ..., 0 after `blocks`;
\* a layer's header is written before its list is looked up
RECURSIVE RenderFrom(_, _, _)
RenderFrom(t, layer_idx, blocks) ==
    IF layer_idx < 0 THEN [status |-> "ok", blocks |-> blocks]
    ELSE IF layer_idx \notin DOMAIN t.layer_to_nodes
         THEN [status |-> "KeyError",
               blocks |-> Append(blocks, [layer |-> layer_idx, nodes |-> <<>>])]
         ELSE LET nodes == t.layer_to_nodes[layer_idx]
              IN  RenderFrom(t, layer_idx - 1,
                      Append(blocks,
                             [layer |-> layer_idx,
                              nodes |-> [j \in 1..Len(nodes) |-> NodeLines(nodes[j])]]))

\* a plausible slip: range(tree.num_layers + 1), the leaves first
VisualizeTreeGraph_LeavesFirst(t) ==
    LET out == RenderFrom(t, t.num_layers, <<>>)
    IN  [out EXCEPT !.blocks = Reverse(out.blocks)]

\* for layer_idx in range(tree.num_layers, -1, -1)
VisualizeTreeGraph(t) == RenderFrom(t, t.num_layers, <<>>)

(******************* the tree object after each call ***********************)
\* analyze_tree_structure reads len(), .items(), node.text and node.children
\* and returns the tree it was given; nothing is assigned to it
TreeAfterAnalyze(t) == t

\* show_sample_nodes: list(...values()), the [:num_samples] slices and
\* sorted(list(node.children)) build new lists; the tree's own are not touched
TreeAfterShowSamples(t, num_samples) == t

\* extract_tree_to_json fills the new tree_dict; sorted(list(...)) is a copy
TreeAfterExtract(t) == t

SortByIndex(nodes) ==
    LET order == Sorted(IndexSet(nodes))
    IN  [j \in 1..Len(nodes) |->
            CHOOSE n \in Elems(nodes) : n.index = order[j]]

\* a plausible slip: nodes.sort(key=index) on the tree's own layer lists
TreeAfterVisualize_SortInPlace(t) ==
    [t EXCEPT !.layer_to_nodes =
        [l \in DOMAIN t.layer_to_nodes |-> SortByIndex(t.layer_to_nodes[l])]]

\* visualize_tree_graph reads tree.layer_to_nodes[layer_idx] and iterates it
TreeAfterVisualize(t) == t

(************************** the analyzer's calls ***************************)
TreeInit ==
    /\ tree \in Trees
    /\ report = NoOutput
    /\ samples = NoOutput
    /\ doc = NoOutput
    /\ ascii = NoOutput
    /\ papers = <<>>
    /\ qresult = NoOutput
    /\ prediction = <<>>
    /\ references = <<>>
    /\ idx = 0
    /\ f1 = Zero
    /\ max_f1 = Zero
    /\ best_ref = <<>>
    /\ pc = "idle"

CallAnalyze ==
    /\ pc = "idle"
    /\ report' = AnalyzeTreeStructure(tree)
    /\ tree' = TreeAfterAnalyze(tree)
    /\ UNCHANGED <<samples, doc, ascii, scorerVars, qasperVars>>

CallShowSamples ==
    /\ pc = "idle"
    /\ \E n \in 0..MaxSamples :
          /\ samples' = ShowSampleNodes(tree, n)
          /\ tree' = TreeAfterShowSamples(tree, n)
    /\ UNCHANGED <<report, doc, ascii, scorerVars, qasperVars>>

CallExtract ==
    /\ pc = "idle"
    /\ doc' = ExtractTreeToJson(tree)
    /\ tree' = TreeAfterExtract(tree)
    /\ UNCHANGED <<report, samples, ascii, scorerVars, qasperVars>>

CallVisualize ==
    /\ pc = "idle"
    /\ ascii' = VisualizeTreeGraph(tree)
    /\ tree' = TreeAfterVisualize(tree)
    /\ UNCHANGED <<report, samples, doc, scorerVars, qasperVars>>

TreeNext == CallAnalyze \/ CallShowSamples \/ CallExtract \/ CallVisualize

TreeSpec == TreeInit /\ [][TreeNext]_vars

(************* evaluate_first_experiment: the loop over references *********)
LoopStart ==
    /\ idx = 0
    /\ f1 = Zero
    /\ max_f1 = Zero
    /\ best_ref = <<>>
    /\ pc = "loop"
    /\ tree = EmptyTree
    /\ report = NoOutput
    /\ samples = NoOutput
    /\ doc = NoOutput
    /\ ascii = NoOutput
    /\ papers = <<>>
    /\ qresult = NoOutput

Init ==
    /\ prediction \in LoopStrings
    /\ references \in RefLists
    /\ LoopStart

\* a plausible slip: the comparison is reversed
Better_Reversed(new, old) == FGt(old, new)

\* `if f1 > max_f1`
Better(new, old) == FGt(new, old)

\* one iteration of `for ref in result['references']`
LoopIter ==
    /\ pc = "loop"
    /\ idx < Len(references)
    /\ LET ref == references[idx + 1]
           r == ComputeTokenF1(prediction, ref)
       IN  IF r.err # ""
           THEN /\ pc' = r.err
                /\ UNCHANGED <<idx, f1, max_f1, best_ref>>
           ELSE /\ f1' = r.val
                /\ idx' = idx + 1
                /\ IF Better(r.val, max_f1)
                   THEN max_f1' = r.val /\ best_ref' = ref
                   ELSE UNCHANGED <<max_f1, best_ref>>
                /\ pc' = pc
    /\ UNCHANGED <<prediction, references, tree, outVars, qasperVars>>

\* the loop is exhausted: total_f1 += max_f1 and the report of best_ref, max_f1
LoopEnd ==
    /\ pc = "loop"
    /\ idx = Len(references)
    /\ pc' = "done"
    /\ UNCHANGED <<prediction, references, idx, f1, max_f1, best_ref, tree, outVars,
                   qasperVars>>

Next == LoopIter \/ LoopEnd

Spec == Init /\ [][Next]_vars

\* one candidate scored against at most one reference, punctuation included
PairInit ==
    /\ prediction \in Strings
    /\ references \in ShortRefLists
    /\ LoopStart

PairSpec == PairInit /\ [][Next]_vars

(************************** QasperDataProcessor ****************************)
\* the 'answer' dicts of the answer records: 'free_form_answer' and
\* 'extractive_spans' as strings and lists of strings, 'unanswerable' a
\* bool, 'yes_no' missing ("absent"), null ("None") or true; a false
\* 'yes_no' is read exactly as a null one
YesNoValues == {"absent", "None", "True"}

AnswerDicts ==
    [free_form_answer : {"", "ff"},
     extractive_spans : {<<>>, <<"s">>},
     yes_no : YesNoValues,
     unanswerable : BOOLEAN]

AnswerLists == UNION {[1..n -> AnswerDicts] : n \in 0..MaxAnswers}

\* a paper with one question; load_data sets paper_data['id']
Paper(k, answers) ==
    [id |-> k, qas |-> <<[question |-> "q", answers |-> answers]>>]

\* ' '.join(str(s) for s in spans if s)
RECURSIVE JoinSpans(_)
JoinSpans(spans) ==
    IF spans = <<>> THEN ""
    ELSE LET rest == JoinSpans(Tail(spans))
         IN  IF Head(spans) = "" THEN rest
             ELSE IF rest = "" THEN Head(spans)
             ELSE Head(spans) \o " " \o rest

\* extract_answer_text on the record's 'answer' dict; "" stands for a
\* returned '' and NoText for a returned None
NoText == "<None>"

ExtractAnswerText(answer) ==
    IF answer.free_form_answer # "" THEN answer.free_form_answer
    ELSE IF answer.extractive_spans # <<>> THEN JoinSpans(answer.extractive_spans)
    ELSE IF answer.yes_no # "absent"
         THEN (IF answer.yes_no = "True" THEN "Yes" ELSE "No")
    ELSE IF answer.unanswerable THEN "Unanswerable"
    ELSE NoText

\* the answer_texts of one question, each with the position of the answer
\* record it was extracted from
RECURSIVE AnswerTexts(_, _)
AnswerTexts(answers, from) ==
    IF from > Len(answers) THEN <<>>
    ELSE LET ans_text == ExtractAnswerText(answers[from])
             rest == AnswerTexts(answers, from + 1)
         IN  IF ans_text \notin {"", NoText} /\ ans_text # "Unanswerable"
             THEN <<[text |-> ans_text, src |-> from]>> \o rest
             ELSE rest

\* get_questions_and_answers: the (question, answers) of the qas with a question
RECURSIVE QuestionsAndAnswers(_)
QuestionsAndAnswers(qas) ==
    IF qas = <<>> THEN <<>>
    ELSE (IF Head(qas).question # "" THEN <<Head(qas)>> ELSE <<>>)
         \o QuestionsAndAnswers(Tail(qas))

RECURSIVE ProcessedPairs(_)
ProcessedPairs(raw) ==
    IF raw = <<>> THEN <<>>
    ELSE LET answer_texts == AnswerTexts(Head(raw).answers, 1)
         IN  (IF answer_texts # <<>>
              THEN <<[question |-> Head(raw).question, answers |-> answer_texts,
                      records |-> Head(raw).answers]>>
              ELSE <<>>) \o ProcessedPairs(Tail(raw))

\* prepare_for_raptor: IndexError outside 0..len(papers)-1
PrepareForRaptor(ps, paper_index) ==
    IF paper_index < 0 \/ paper_index >= Len(ps)
    THEN [status |-> "IndexError", qa_pairs |-> <<>>]
    ELSE [status |-> "ok",
          qa_pairs |-> ProcessedPairs(QuestionsAndAnswers(ps[paper_index + 1].qas))]

\* get_paper_info: self.papers[paper_index] takes -len..len-1; whatever the
\* try block raises goes to the handler, which reads `paper` when
\* paper_index < len(self.papers), bound or not
GetPaperInfo(ps, paper_index) ==
    LET n == Len(ps)
    IN  IF paper_index >= -n /\ paper_index < n
        THEN LET paper == ps[IF paper_index >= 0 THEN paper_index + 1
                             ELSE n + paper_index + 1]
                 prepared == PrepareForRaptor(ps, paper_index)
             IN  IF prepared.status = "ok"
                 THEN [status |-> "ok", id |-> paper.id, error |-> FALSE,
                       num_questions |-> Len(prepared.qa_pairs)]
                 ELSE [status |-> "ok", id |-> paper.id, error |-> TRUE,
                       num_questions |-> 0]
        ELSE IF paper_index < n
             THEN [status |-> "UnboundLocalError", id |-> 0, error |-> FALSE,
                   num_questions |-> 0]
             ELSE [status |-> "ok", id |-> -1, error |-> TRUE, num_questions |-> 0]

PaperIndexes == (-(MaxPapers + 1))..MaxPapers

QasperInit ==
    /\ \E n \in 0..MaxPapers : \E answers \in AnswerLists :
          papers = [k \in 1..n |-> Paper(k, answers)]
    /\ qresult = NoOutput
    /\ tree = EmptyTree
    /\ report = NoOutput
    /\ samples = NoOutput
    /\ doc = NoOutput
    /\ ascii = NoOutput
    /\ prediction = <<>>
    /\ references = <<>>
    /\ idx = 0
    /\ f1 = Zero
    /\ max_f1 = Zero
    /\ best_ref = <<>>
    /\ pc = "idle"

CallGetPaperInfo ==
    /\ pc = "idle"
    /\ \E i \in PaperIndexes :
          qresult' = [op |-> "info", paper_index |-> i,
                      status |-> GetPaperInfo(papers, i).status,
                      info |-> GetPaperInfo(papers, i)]
    /\ UNCHANGED <<papers, scorerVars, treeVars>>

CallPrepareForRaptor ==
    /\ pc = "idle"
    /\ \E i \in PaperIndexes :
          qresult' = [op |-> "prepare", paper_index |-> i,
                      status |-> PrepareForRaptor(papers, i).status,
                      qa_pairs |-> PrepareForRaptor(papers, i).qa_pairs]
    /\ UNCHANGED <<papers, scorerVars, treeVars>>

QasperNext == CallGetPaperInfo \/ CallPrepareForRaptor

QasperSpec == QasperInit /\ [][QasperNext]_vars

(***************************** the claims **********************************)
Score(j) == ComputeTokenF1(prediction, references[j]).val

Scores(n) == {Score(j) : j \in 1..n}

Degenerate(a, b) == TokenSet(a) = {} \/ TokenSet(b) = {}

\* C1: after the loop has consumed any number of references, max_f1 is the
\* greatest of the pair scores of the references consumed (it is one of them
\* and none exceeds it); with no reference consumed it is the initial 0.
C1_MaxOverReferences ==
    pc \in {"loop", "done"} =>
        IF idx = 0 THEN max_f1 = Zero
        ELSE /\ max_f1 \in Scores(idx)
             /\ \A s \in Scores(idx) : ~FGt(s, max_f1)

\* two references, the second scores strictly higher than the first, both > 0
C1_Witness ==
    /\ pc = "done"
    /\ Len(references) = 2
    /\ FGt(Score(1), Zero)
    /\ FGt(Score(2), Score(1))
    /\ max_f1 = Score(2)

\* C2: for a non-empty reference list the reported best_ref is the first
\* reference, in list order, whose pair score equals the reported max_f1.
C2_BestReferenceIsFirstMax ==
    (pc = "done" /\ references # <<>>) =>
        \E j \in 1..Len(references) :
            /\ best_ref = references[j]
            /\ Score(j) = max_f1
            /\ \A k \in 1..(j - 1) : Score(k) # max_f1

\* C3 as stated: every non-empty string scores 1.0 against itself.
C3_SelfScoreNonEmptyString ==
    (idx = 1 /\ references[1] = prediction /\ prediction # <<>>) => f1 = One

\* C3 amended: every string with at least one word token scores 1.0 against
\* itself.
C3_SelfScoreWithTokens ==
    (idx = 1 /\ references[1] = prediction /\ TokenSet(prediction) # {}) => f1 = One

\* a string of two distinct tokens scored against itself
C3_Witness ==
    /\ idx = 1
    /\ references[1] = prediction
    /\ Cardinality(TokenSet(prediction)) = 2
    /\ f1 = One

\* C4: the score of (candidate, reference) is the score of (reference,
\* candidate).
C4_Symmetric ==
    idx = 1 =>
        LET swapped == ComputeTokenF1(references[1], prediction)
        IN  swapped.err = "" /\ swapped.val = f1

\* token sets of different sizes that overlap: precision and recall differ
C4_Witness ==
    /\ idx = 1
    /\ Cardinality(TokenSet(prediction)) # Cardinality(TokenSet(references[1]))
    /\ FGt(f1, Zero)
    /\ FGt(One, f1)

\* C5: a pair with an empty token set on either side scores 0 and raises
\* nothing, and an empty reference list ends with max_f1 = 0 and no error.
C5_DegenerateScoresZero ==
    /\ (idx >= 1 /\ Degenerate(prediction, references[idx])) => f1 = Zero
    /\ (pc = "ZeroDivisionError") => ~Degenerate(prediction, references[idx + 1])
    /\ (references = <<>>) => (pc \in {"loop", "done"} /\ max_f1 = Zero)

\* a candidate with tokens scored against a non-empty reference without any
C5_Witness ==
    /\ pc = "done"
    /\ idx = 1
    /\ TokenSet(prediction) # {}
    /\ references[1] # <<>>
    /\ TokenSet(references[1]) = {}
    /\ f1 = Zero

\* reconstruct of section 8: the Tree a consumer rebuilds from the export
ParseLayerKey(k) == CHOOSE l \in 0..(MaxNodes + 1) : LayerKey(l) = k

Reconstruct(d) ==
    LET ls == {ParseLayerKey(k) : k \in DOMAIN d.layers}
        rebuilt(rec) == Node(rec.index, rec.text, Elems(rec.children))
        ltn == [l \in ls |->
                   [j \in 1..Len(d.layers[LayerKey(l)]) |->
                       rebuilt(d.layers[LayerKey(l)][j])]]
        top == d.meta.num_layers - 1
    IN  [layer_to_nodes |-> ltn,
         all_nodes |-> Concat([l \in 1..Cardinality(ls) |-> ltn[l - 1]]),
         leaf_nodes |-> IF 0 \in ls THEN ltn[0] ELSE <<>>,
         root_nodes |-> IF top \in ls THEN ltn[top] ELSE <<>>,
         num_layers |-> top]

\* C6: the tree rebuilt from the exported document has the layers of the
\* tree, the same nodes in the same order in each, with the same text and
\* the same set of child indices.
C6_ExportRoundTrip ==
    doc.status = "ok" => Reconstruct(doc).layer_to_nodes = tree.layer_to_nodes

\* an export of a tree with a node of two children, a non-empty text and a
\* layer listed against index order
C6_Witness ==
    /\ doc.status = "ok"
    /\ tree.num_layers >= 1
    /\ \E j \in 1..Len(tree.all_nodes) :
          /\ Cardinality(tree.all_nodes[j].children) >= 2
          /\ tree.all_nodes[j].text # <<>>
    /\ Len(tree.leaf_nodes) >= 2
    /\ tree.leaf_nodes[1].index > tree.leaf_nodes[2].index

ChildCounts(nodes) == [j \in 1..Len(nodes) |-> Cardinality(nodes[j].children)]

\* C7: for every layer L in 1..num_layers the summary holds a fan-out block
\* whose average, minimum and maximum are those of the child counts of the
\* nodes of layer L.
C7_FanOutPerNonTerminalLayer ==
    report.status = "ok" =>
        \A L \in 1..tree.num_layers :
            \E l \in DOMAIN report.shape :
                LET counts == ChildCounts(tree.layer_to_nodes[L])
                IN  /\ report.shape[l].avg_children = Frac(SumSeq(counts), Len(counts))
                    /\ report.shape[l].min_children = SetMin(Elems(counts))
                    /\ report.shape[l].max_children = SetMax(Elems(counts))

OutputFine(out) == out.status \in {"none", "ok"}

\* C8: on the tree with no layers every analyzer operation completes, with
\* an empty result, and none raises.
C8_EmptyTreeNeverFails ==
    (DOMAIN tree.layer_to_nodes = {}) =>
        /\ OutputFine(report) /\ OutputFine(samples)
        /\ OutputFine(doc) /\ OutputFine(ascii)
        /\ (report.status = "ok" => report.total_nodes = 0 /\ DOMAIN report.shape = {})
        /\ (samples.status = "ok" => samples.leaves = <<>> /\ samples.layer1 = <<>>)
        /\ (doc.status = "ok" => DOMAIN doc.layers = {})
        /\ (ascii.status = "ok" => ascii.blocks = <<>>)

RECURSIVE SumOver(_, _)
SumOver(S, f) ==
    IF S = {} THEN 0
    ELSE LET x == CHOOSE y \in S : TRUE IN f[x] + SumOver(S \ {x}, f)

UpperNodeCount(t) ==
    SumOver(1..t.num_layers, [l \in 1..t.num_layers |-> Len(t.layer_to_nodes[l])])

\* C9: the total node count of the summary, and of the export's meta block,
\* is the sum of the per-layer node counts and is the leaf count plus the
\* number of nodes in layers 1..num_layers.
C9_NodeCountConsistency ==
    /\ report.status = "ok" =>
          /\ report.total_nodes =
                SumOver(DOMAIN report.layers,
                        [l \in DOMAIN report.layers |-> report.layers[l].count])
          /\ report.total_nodes = report.leaf_nodes + UpperNodeCount(tree)
    /\ doc.status = "ok" =>
          /\ doc.meta.total_nodes =
                SumOver(DOMAIN doc.layers,
                        [k \in DOMAIN doc.layers |-> Len(doc.layers[k])])
          /\ doc.meta.total_nodes = doc.meta.leaf_nodes + UpperNodeCount(tree)

\* a summary and an export of a tree of three layers
C9_Witness ==
    /\ report.status = "ok"
    /\ doc.status = "ok"
    /\ tree.num_layers = 2
    /\ report.leaf_nodes = 2
    /\ report.total_nodes = 4

StrictlyAscending(s) == \A j \in 1..(Len(s) - 1) : s[j] < s[j + 1]

\* C10: layers.layer_<i> holds one record per node of layer i in the
\* layer's order; each record's children list is strictly ascending, holds
\* exactly the node's child indices and has num_children entries; the meta
\* block's counts are those of the summary, num_layers being
\* tree.num_layers + 1.
C10_ExportRecordShape ==
    doc.status = "ok" =>
        /\ DOMAIN doc.layers = {LayerKey(l) : l \in DOMAIN tree.layer_to_nodes}
        /\ \A l \in DOMAIN tree.layer_to_nodes :
              LET recs == doc.layers[LayerKey(l)]
                  nodes == tree.layer_to_nodes[l]
              IN  /\ Len(recs) = Len(nodes)
                  /\ \A j \in 1..Len(nodes) :
                        /\ recs[j].index = nodes[j].index
                        /\ recs[j].text = nodes[j].text
                        /\ recs[j].text_length = Len(nodes[j].text)
                        /\ StrictlyAscending(recs[j].children)
                        /\ Elems(recs[j].children) = nodes[j].children
                        /\ Len(recs[j].children) = recs[j].num_children
        /\ doc.meta.num_layers = tree.num_layers + 1
        /\ report.status = "ok" =>
              /\ doc.meta.total_nodes = report.total_nodes
              /\ doc.meta.num_layers = report.num_layers
              /\ doc.meta.leaf_nodes = report.leaf_nodes
              /\ doc.meta.root_nodes = report.root_nodes

\* an export, next to a summary, with a record of two children and layer 1
\* listed against index order
C10_Witness ==
    /\ doc.status = "ok"
    /\ report.status = "ok"
    /\ tree.num_layers = 1
    /\ Len(doc.layers[LayerKey(1)]) = 2
    /\ doc.layers[LayerKey(1)][1].index > doc.layers[LayerKey(1)][2].index
    /\ doc.layers[LayerKey(1)][1].num_children = 2

\* C11: no analyzer call, in any order and any number of times, changes the
\* tree: layer_to_nodes with the order of each layer, all_nodes, leaf_nodes,
\* root_nodes, num_layers and every node's index, text and children.
C11_AnalyzerReadOnly == [][tree' = tree]_vars

\* all four operations have run on a tree whose leaf list is against index
\* order and which has a second layer
C11_Witness ==
    /\ report.status = "ok" /\ samples.status = "ok"
    /\ doc.status = "ok" /\ ascii.status = "ok"
    /\ tree.num_layers >= 1
    /\ Len(tree.leaf_nodes) >= 2
    /\ tree.leaf_nodes[1].index > tree.leaf_nodes[2].index
LayerList(t, l) == IF l \in DOMAIN t.layer_to_nodes THEN t.layer_to_nodes[l] ELSE <<>>

\* C12: show_sample_nodes(tree, n), n >= 0, presents the first min(n, size)
\* nodes of layer 0 in the layer's order and, exactly when layer 1 is in the
\* tree, the first min(n, size) nodes of layer 1 in order; without layer 1
\* there is no layer-1 sample and the call does not fail.
C12_NodeSampling ==
    samples.status # "none" =>
        LET n == samples.num_samples
            layer0 == LayerList(tree, 0)
            layer1 == LayerList(tree, 1)
        IN  /\ samples.status = "ok"
            /\ Len(samples.leaves) = Min2(n, Len(layer0))
            /\ \A j \in 1..Len(samples.leaves) :
                  /\ samples.leaves[j].index = layer0[j].index
                  /\ samples.leaves[j].text_length = Len(layer0[j].text)
                  /\ samples.leaves[j].num_children = Cardinality(layer0[j].children)
            /\ samples.has_layer1 <=> (1 \in DOMAIN tree.layer_to_nodes)
            /\ ~samples.has_layer1 => samples.layer1 = <<>>
            /\ samples.has_layer1 =>
                  /\ Len(samples.layer1) = Min2(n, Len(layer1))
                  /\ \A j \in 1..Len(samples.layer1) :
                        /\ samples.layer1[j].index = layer1[j].index
                        /\ samples.layer1[j].text = layer1[j].text
                        /\ Elems(samples.layer1[j].children) = layer1[j].children

\* one sample asked of a tree with two leaves and two layer-1 nodes
C12_Witness ==
    /\ samples.status = "ok"
    /\ samples.num_samples = 1
    /\ Len(LayerList(tree, 0)) = 2
    /\ Len(LayerList(tree, 1)) = 2
    /\ Len(samples.leaves) = 1
    /\ Len(samples.layer1) = 1

\* sampling a tree that has only layer 0
C12_WitnessNoLayer1 ==
    /\ samples.status = "ok"
    /\ samples.num_samples = 2
    /\ tree.num_layers = 0
    /\ Len(samples.leaves) = 2

\* C13: for a tree with layers 0..num_layers the render holds one block per
\* layer, from num_layers down to 0; a block lists the layer's nodes in the
\* layer's order, each with its index, the first 100 characters of its text
\* at most, its full text length, and a line of its child indices in
\* ascending order exactly when it has a child.
C13_RenderOrdering ==
    (ascii.status # "none" /\ DOMAIN tree.layer_to_nodes # {}) =>
        /\ ascii.status = "ok"
        /\ Len(ascii.blocks) = tree.num_layers + 1
        /\ \A k \in 1..Len(ascii.blocks) :
              LET b == ascii.blocks[k]
                  nodes == LayerList(tree, b.layer)
              IN  /\ b.layer = tree.num_layers - (k - 1)
                  /\ Len(b.nodes) = Len(nodes)
                  /\ \A j \in 1..Len(nodes) :
                        LET r == b.nodes[j]
                        IN  /\ r.index = nodes[j].index
                            /\ Len(r.preview) = Min2(PreviewChars, Len(nodes[j].text))
                            /\ r.preview = SubSeq(nodes[j].text, 1, Len(r.preview))
                            /\ r.length = Len(nodes[j].text)
                            /\ r.has_children_line <=> (nodes[j].children # {})
                            /\ r.has_children_line =>
                                  /\ StrictlyAscending(r.children)
                                  /\ Elems(r.children) = nodes[j].children

\* a render of two layers with a text longer than the preview and a node of
\* two children
C13_Witness ==
    /\ ascii.status = "ok"
    /\ Len(ascii.blocks) = 2
    /\ ascii.blocks[1].layer = 1
    /\ \E j \in 1..Len(ascii.blocks[1].nodes) :
          /\ ascii.blocks[1].nodes[j].length > PreviewChars
          /\ Len(ascii.blocks[1].nodes[j].preview) = PreviewChars
          /\ Len(ascii.blocks[1].nodes[j].children) = 2
    /\ \A j \in 1..Len(ascii.blocks[2].nodes) :
          ~ascii.blocks[2].nodes[j].has_children_line
\* C14: get_paper_info returns a dictionary for every integer paper_index
\* and never raises, and outside 0..len(papers)-1 the dictionary has an
\* 'error' entry.
C14_GetPaperInfoTotal ==
    (qresult.status # "none" /\ qresult.op = "info") =>
        /\ qresult.status = "ok"
        /\ (qresult.paper_index < 0 \/ qresult.paper_index >= Len(papers))
              => qresult.info.error

\* an answer record flagged unanswerable, with no free-form answer and no
\* extractive spans, whatever its 'yes_no'
PureUnanswerable(answer) ==
    /\ answer.unanswerable
    /\ answer.free_form_answer = ""
    /\ answer.extractive_spans = <<>>

\* C15: every pair prepare_for_raptor returns has a non-empty answer list,
\* none of its texts comes from an answer record that is flagged
\* unanswerable and has no free-form answer and no extractive spans, and a
\* question with only such records is left out.
C15_UnanswerableNeverReference ==
    (qresult.status = "ok" /\ qresult.op = "prepare") =>
        \A p \in 1..Len(qresult.qa_pairs) :
            LET pair == qresult.qa_pairs[p]
            IN  /\ pair.answers # <<>>
                /\ \A a \in 1..Len(pair.answers) :
                      ~PureUnanswerable(pair.records[pair.answers[a].src])
                /\ \E r \in 1..Len(pair.records) : ~PureUnanswerable(pair.records[r])

====
